---------------------------- MODULE Spec2Model ----------------------------
(***************************************************************************)
(* State-machine model of cp_zonos.py, a Streamlit script that chains      *)
(* Whisper speech-to-text with gTTS text-to-speech.                        *)
(*                                                                         *)
(* Streamlit re-executes the script top to bottom on every user            *)
(* interaction.  One action of the model is one such script run (plus the  *)
(* rerun it requests through st.experimental_rerun), for one browser       *)
(* session.  st.session_state is per session; the st.cache_resource cache  *)
(* and the filesystem are shared by all sessions of the server process.    *)
(*                                                                         *)
(* Outcomes of the external collaborators (whisper.load_model,             *)
(* model.transcribe, gTTS, file write, os.unlink) are inputs of the        *)
(* actions, drawn with \E.  Temporary files are created and removed by the *)
(* script only.  st.session_state.tts_model and voice_samples are written  *)
(* but never read and are left out; so is the speech-speed slider, which   *)
(* is passed through to gTTS unchanged.                                    *)
(***************************************************************************)
EXTENDS Naturals, Sequences, FiniteSets

\* Number of temporary file names the filesystem can hand out.
MaxFiles == 2

\* Browser sessions connected to the server process (two: the isolation
\* claim is about two interleaved sessions).
Sessions == {"s1", "s2"}

\* Python's None, where a string is expected.
None == "None"

\* Python's None, where a model object is expected.
NoModel == <<>>

\* Python's None, where the path of a temporary file is expected.
NoPath == 0

\* No entry in the st.cache_resource cache for a key.
Absent == <<"Absent">>

\* Options of the "Select Whisper Model Size" selectbox.
ModelSizes == {"tiny", "base", "small", "medium"}

\* The selectbox is built with index=1.
DefaultModelSize == "base"

\* Names tempfile.NamedTemporaryFile can return.
Paths == 1..MaxFiles

\* Texts a transcription, or the content of a text area, can be.
Texts == {"", "hello world"}

\* The object returned by the n-th whisper.load_model call for a size.
Handle(size, n) == <<size, n>>

\* The languages dictionary; a code is the sequence of its characters.
languages ==
    [ label \in {"English (US)", "English (UK)", "Spanish", "French", "German",
                 "Italian", "Portuguese", "Russian", "Japanese", "Korean",
                 "Chinese", "Hindi"} |->
        CASE label = "English (US)" -> <<"e", "n">>
          [] label = "English (UK)" -> <<"e", "n", "-", "g", "b">>
          [] label = "Spanish"      -> <<"e", "s">>
          [] label = "French"       -> <<"f", "r">>
          [] label = "German"       -> <<"d", "e">>
          [] label = "Italian"      -> <<"i", "t">>
          [] label = "Portuguese"   -> <<"p", "t">>
          [] label = "Russian"      -> <<"r", "u">>
          [] label = "Japanese"     -> <<"j", "a">>
          [] label = "Korean"       -> <<"k", "o">>
          [] label = "Chinese"      -> <<"z", "h", "-", "C", "N">>
          [] label = "Hindi"        -> <<"h", "i">> ]

Labels == DOMAIN languages

\* The language selectbox starts on the first key of the dictionary.
DefaultLanguage == "English (US)"

\* str.split('-')[0]: the characters before the first '-'.
RECURSIVE SplitFirst(_)
SplitFirst(code) ==
    IF code = <<>> \/ Head(code) = "-"
    THEN <<>>
    ELSE <<Head(code)>> \o SplitFirst(Tail(code))

\* The lang argument of the gTTS call for a selected label.
gTTSLang(label) == SplitFirst(languages[label])

VARIABLES
    whisper_model,        \* st.session_state.whisper_model, per session
    transcription,        \* st.session_state.transcription, per session
    audio_path,           \* st.session_state.audio_path, per session
    whisper_model_size,   \* value of the model-size selectbox, per session
    selected_language,    \* value of the TTS language selectbox, per session
    model_cache,          \* st.cache_resource cache of load_whisper_model
    load_calls,           \* whisper.load_model calls performed, per size
    fs,                   \* temporary files that exist
    made,                 \* creator of each existing temporary file
    run                   \* what the latest script run did and showed

vars == <<whisper_model, transcription, audio_path, whisper_model_size,
          selected_language, model_cache, load_calls, fs, made, run>>

\* No creator: the name is not in use.
NotMade == <<>>

\* The record of a script run of session s triggered by a widget, showing
\* msg ("none", "success", "error" or "warning").  The other fields:
\*   uncaught  the run ended in an exception no handler caught
\*   cached    load_whisper_model was served from the cache
\*   path      the temporary file the run created or set out to delete
\*   unlink    outcome of the run's os.unlink call ("none": no call)
\*   text      content of the text-to-speech text area when the run read it
\*   tts       the gTTS calls the run made
Ran(s, action, msg) ==
    [sess |-> s, action |-> action, msg |-> msg, uncaught |-> FALSE,
     cached |-> FALSE, path |-> NoPath, unlink |-> "none", text |-> "",
     tts |-> <<>>]

\* Session state initialisation: every key starts at its default.
Init ==
    /\ whisper_model = [s \in Sessions |-> NoModel]
    /\ transcription = [s \in Sessions |-> ""]
    /\ audio_path = [s \in Sessions |-> NoPath]
    /\ whisper_model_size = [s \in Sessions |-> DefaultModelSize]
    /\ selected_language = [s \in Sessions |-> DefaultLanguage]
    /\ model_cache = [z \in ModelSizes |-> Absent]
    /\ load_calls = [z \in ModelSizes |-> 0]
    /\ fs = {}
    /\ made = [p \in Paths |-> NotMade]
    /\ run = Ran(None, "start", "none")

\* A loader without the cache decorator: every call runs the body.
CacheNever(size) == FALSE

\* st.cache_resource: a call with a key already in the cache returns the
\* cached value without running the function body.
CacheHit(size) == model_cache[size] # Absent

\* load_whisper_model(model_size), with load_ok the outcome of
\* whisper.load_model: the returned value, the cache and the call counts.
\* An exception of whisper.load_model is caught in the body, so None is
\* returned normally and cached like any other value.
load_whisper_model(size, load_ok) ==
    IF CacheHit(size)
    THEN [ret |-> model_cache[size], hit |-> TRUE,
          cache |-> model_cache, calls |-> load_calls]
    ELSE LET n == load_calls[size] + 1
             ret == IF load_ok THEN Handle(size, n) ELSE NoModel
         IN [ret |-> ret, hit |-> FALSE,
             cache |-> [model_cache EXCEPT ![size] = ret],
             calls |-> [load_calls EXCEPT ![size] = n]]

\* A reload that stores the model in a process-wide variable, so that it
\* replaces the model of every session.
LoadModelsGlobal(s) ==
    \E load_ok \in BOOLEAN :
        LET r == load_whisper_model(whisper_model_size[s], load_ok) IN
        /\ whisper_model' = [t \in Sessions |-> r.ret]
        /\ model_cache' = r.cache
        /\ load_calls' = r.calls
        /\ run' = [Ran(s, "Load", IF r.ret # NoModel THEN "success" ELSE "error")
                     EXCEPT !.cached = r.hit]
        /\ UNCHANGED <<transcription, audio_path, whisper_model_size,
                       selected_language, fs, made>>

\* The "Load/Reload Models" sidebar button.
LoadModels(s) ==
    \E load_ok \in BOOLEAN :
        LET r == load_whisper_model(whisper_model_size[s], load_ok) IN
        /\ whisper_model' = [whisper_model EXCEPT ![s] = r.ret]
        /\ model_cache' = r.cache
        /\ load_calls' = r.calls
        /\ run' = [Ran(s, "Load", IF r.ret # NoModel THEN "success" ELSE "error")
                     EXCEPT !.cached = r.hit]
        /\ UNCHANGED <<transcription, audio_path, whisper_model_size,
                       selected_language, fs, made>>

\* The user picks another entry of the model-size selectbox: a script run
\* in which no button is pressed.
SelectModelSize(s) ==
    \E size \in ModelSizes :
        /\ size # whisper_model_size[s]
        /\ whisper_model_size' = [whisper_model_size EXCEPT ![s] = size]
        /\ run' = Ran(s, "SelectModelSize", "none")
        /\ UNCHANGED <<whisper_model, transcription, audio_path,
                       selected_language, model_cache, load_calls, fs, made>>

\* The user picks another entry of the TTS language selectbox: a script run
\* in which no button is pressed.
SelectLanguage(s) ==
    \E label \in Labels :
        /\ label # selected_language[s]
        /\ selected_language' = [selected_language EXCEPT ![s] = label]
        /\ run' = Ran(s, "SelectLanguage", "none")
        /\ UNCHANGED <<whisper_model, transcription, audio_path,
                       whisper_model_size, model_cache, load_calls, fs, made>>

\* The "Transcribe Audio" button, rendered only while a model is loaded.
\* has_audio: a file was uploaded or audio recorded; write_ok: tmp_file.write
\* returned; result: "raise" if whisper's transcribe raised, else the text;
\* unlink_ok: os.unlink in the except branch returned.  The upload and the
\* record branch differ only in how the bytes to write are obtained.  The
\* file gets a name no existing file has; with every name in use the run
\* is left out.
TranscribeAudio(s) ==
    /\ whisper_model[s] # NoModel
    /\ \E has_audio \in BOOLEAN :
        IF ~has_audio
        THEN /\ run' = Ran(s, "Transcribe", "error")
             /\ UNCHANGED <<whisper_model, transcription, audio_path,
                            whisper_model_size, selected_language, model_cache,
                            load_calls, fs, made>>
        ELSE \E tmp_file_path \in Paths \ fs, write_ok \in BOOLEAN,
                result \in Texts \cup {"raise"}, unlink_ok \in BOOLEAN :
                /\ IF ~write_ok
                   THEN \* the write is outside the try: nothing catches its
                        \* exception and nothing removes the file
                        /\ fs' = fs \cup {tmp_file_path}
                        /\ made' = [made EXCEPT ![tmp_file_path] = <<s, "failed">>]
                        /\ run' = [Ran(s, "Transcribe", "none") EXCEPT
                                     !.uncaught = TRUE, !.path = tmp_file_path]
                        /\ UNCHANGED <<transcription, audio_path>>
                   ELSE IF result # "raise"
                   THEN /\ fs' = fs \cup {tmp_file_path}
                        /\ made' = [made EXCEPT ![tmp_file_path] = <<s, "success">>]
                        /\ transcription' = [transcription EXCEPT ![s] = result]
                        /\ audio_path' = [audio_path EXCEPT ![s] = tmp_file_path]
                        /\ run' = [Ran(s, "Transcribe", "success") EXCEPT
                                     !.path = tmp_file_path]
                   ELSE \* except Exception: st.error, then os.unlink, whose
                        \* own exception nothing catches
                        /\ fs' = IF unlink_ok THEN fs ELSE fs \cup {tmp_file_path}
                        /\ made' = IF unlink_ok THEN made
                                   ELSE [made EXCEPT ![tmp_file_path] = <<s, "failed">>]
                        /\ run' = [Ran(s, "Transcribe", "error") EXCEPT
                                     !.uncaught = ~unlink_ok,
                                     !.path = tmp_file_path,
                                     !.unlink = IF unlink_ok THEN "ok" ELSE "failed"]
                        /\ UNCHANGED <<transcription, audio_path>>
                /\ UNCHANGED <<whisper_model, whisper_model_size,
                               selected_language, model_cache, load_calls>>

\* A Clear that drops the reference without removing the file.
ClearForgetsFile(s) ==
    /\ whisper_model[s] # NoModel
    /\ transcription' = [transcription EXCEPT ![s] = ""]
    /\ audio_path' = [audio_path EXCEPT ![s] = NoPath]
    /\ run' = [Ran(s, "Clear", "none") EXCEPT !.path = audio_path[s]]
    /\ UNCHANGED <<whisper_model, whisper_model_size, selected_language,
                   model_cache, load_calls, fs, made>>

\* A Clear that removes the file without resetting the reference.
ClearKeepsPath(s) ==
    /\ whisper_model[s] # NoModel
    /\ transcription' = [transcription EXCEPT ![s] = ""]
    /\ audio_path[s] # NoPath
    /\ fs' = fs \ {audio_path[s]}
    /\ made' = [made EXCEPT ![audio_path[s]] = NotMade]
    /\ run' = [Ran(s, "Clear", "none") EXCEPT !.path = audio_path[s],
                                              !.unlink = "ok"]
    /\ UNCHANGED <<whisper_model, audio_path, whisper_model_size,
                   selected_language, model_cache, load_calls>>

\* The "Clear" button of the speech-to-text tab, rendered only while a model
\* is loaded.  unlink_ok: os.unlink returned; its exception is swallowed by
\* the bare except.  The handler ends in st.experimental_rerun().
Clear(s) ==
    /\ whisper_model[s] # NoModel
    /\ transcription' = [transcription EXCEPT ![s] = ""]
    /\ IF audio_path[s] # NoPath /\ audio_path[s] \in fs
       THEN \E unlink_ok \in BOOLEAN :
              /\ fs' = IF unlink_ok THEN fs \ {audio_path[s]} ELSE fs
              /\ made' = IF unlink_ok
                         THEN [made EXCEPT ![audio_path[s]] = NotMade]
                         ELSE made
              /\ run' = [Ran(s, "Clear", "none") EXCEPT
                           !.path = audio_path[s],
                           !.unlink = IF unlink_ok THEN "ok" ELSE "failed"]
       ELSE /\ run' = [Ran(s, "Clear", "none") EXCEPT !.path = audio_path[s]]
            /\ UNCHANGED <<fs, made>>
    /\ audio_path' = [audio_path EXCEPT ![s] = NoPath]
    /\ UNCHANGED <<whisper_model, whisper_model_size, selected_language,
                   model_cache, load_calls>>

\* The "Send to Text-to-Speech" button, rendered only while a model is
\* loaded: stores the (editable) content of the transcription text area.
\* The handler ends in st.experimental_rerun().
SendToTTS(s) ==
    /\ whisper_model[s] # NoModel
    /\ \E text \in Texts :
        /\ transcription' = [transcription EXCEPT ![s] = text]
        /\ run' = Ran(s, "Send", "none")
        /\ UNCHANGED <<whisper_model, audio_path, whisper_model_size,
                       selected_language, model_cache, load_calls, fs, made>>

\* A handler without the emptiness test.
TextAlwaysGiven(text_input) == TRUE

\* "if text_input:": a Python string is true unless it is empty.
TextGiven(text_input) == text_input # ""

\* The "Generate Speech" button.  text_input: content of the text area;
\* tts_ok: gTTS produced audio rather than raising.
GenerateSpeech(s) ==
    \E text_input \in Texts, tts_ok \in BOOLEAN :
        /\ run' = IF TextGiven(text_input)
                  THEN [Ran(s, "Generate", IF tts_ok THEN "success" ELSE "error")
                          EXCEPT !.text = text_input,
                                 !.tts = <<[text |-> text_input,
                                            lang |-> gTTSLang(selected_language[s])]>>]
                  ELSE [Ran(s, "Generate", "warning") EXCEPT !.text = text_input]
        /\ UNCHANGED <<whisper_model, transcription, audio_path,
                       whisper_model_size, selected_language, model_cache,
                       load_calls, fs, made>>

\* A Clear Text that resets the whole session, the loaded model included.
ClearTextResetsSession(s) ==
    /\ transcription' = [transcription EXCEPT ![s] = ""]
    /\ whisper_model' = [whisper_model EXCEPT ![s] = NoModel]
    /\ run' = Ran(s, "ClearText", "none")
    /\ UNCHANGED <<audio_path, whisper_model_size, selected_language,
                   model_cache, load_calls, fs, made>>

\* The "Clear Text" button of the text-to-speech tab.  The handler ends in
\* st.experimental_rerun().
ClearText(s) ==
    /\ transcription' = [transcription EXCEPT ![s] = ""]
    /\ run' = Ran(s, "ClearText", "none")
    /\ UNCHANGED <<whisper_model, audio_path, whisper_model_size,
                   selected_language, model_cache, load_calls, fs, made>>

\* One session using every widget but the language selectbox.
Next ==
    \/ LoadModels("s1")
    \/ SelectModelSize("s1")
    \/ TranscribeAudio("s1")
    \/ Clear("s1")
    \/ SendToTTS("s1")
    \/ GenerateSpeech("s1")
    \/ ClearText("s1")

Spec == Init /\ [][Next]_vars

\* Two interleaved sessions that leave both selectboxes on their defaults.
NextSessions ==
    \E s \in Sessions :
        \/ LoadModels(s)
        \/ TranscribeAudio(s)
        \/ Clear(s)
        \/ SendToTTS(s)
        \/ GenerateSpeech(s)
        \/ ClearText(s)

SpecSessions == Init /\ [][NextSessions]_vars

\* Two interleaved sessions on the text-to-speech tab.
NextTTS ==
    \E s \in Sessions :
        \/ SelectLanguage(s)
        \/ GenerateSpeech(s)
        \/ ClearText(s)

SpecTTS == Init /\ [][NextTTS]_vars

-----------------------------------------------------------------------------
(* Properties *)

\* C1: a model size is loaded by whisper.load_model at most once, however
\* often Load/Reload Models is pressed for it; a press that finds the size
\* in the cache stores the cached object in the session.
LoadOncePerSize ==
    /\ \A size \in ModelSizes : load_calls[size] <= 1
    /\ (run.action = "Load" /\ run.cached) =>
          whisper_model[run.sess] = model_cache[whisper_model_size[run.sess]]

\* Load/Reload Models was pressed again for a size that had been loaded:
\* the press was served from the cache and the session holds the model.
ReloadServedFromCache ==
    /\ run.action = "Load"
    /\ run.cached
    /\ load_calls[whisper_model_size[run.sess]] = 1
    /\ whisper_model[run.sess] # NoModel

\* C2 as stated: after Clear the transcription is empty, audio_path is None,
\* no error escaped, and the file audio_path named is gone.
ClearRemovesFile ==
    run.action = "Clear" =>
        /\ transcription[run.sess] = ""
        /\ audio_path[run.sess] = NoPath
        /\ ~run.uncaught
        /\ run.path # NoPath => run.path \notin fs

\* C2, amended: after Clear the transcription is empty, audio_path is None
\* and no error escaped; the file audio_path named is gone unless os.unlink
\* failed, in which case it is still there; with audio_path None nothing is
\* unlinked.
ClearBestEffort ==
    run.action = "Clear" =>
        /\ transcription[run.sess] = ""
        /\ audio_path[run.sess] = NoPath
        /\ ~run.uncaught
        /\ run.path # NoPath => (run.path \in fs <=> run.unlink = "failed")
        /\ run.path = NoPath => run.unlink = "none"

\* Clear was pressed while audio_path named a file, and removed it.
ClearRemovedFile ==
    /\ run.action = "Clear"
    /\ run.path # NoPath
    /\ run.unlink = "ok"
    /\ run.path \notin fs

\* C3: after a Transcribe Audio run that did not succeed, the temporary
\* file the run created does not exist.
FailedTranscribeRemovesTmp ==
    (run.action = "Transcribe" /\ run.path # NoPath /\ run.msg # "success") =>
        run.path \notin fs

\* C4: after Clear, no temporary file created by a Transcribe Audio run of
\* the session exists.
ClearLeavesNoTmp ==
    run.action = "Clear" => \A p \in fs : made[p][1] # run.sess

\* Clear removed the file audio_path named, and a file of an earlier
\* successful transcription of the session is still there.
ClearLeftEarlierTmp ==
    /\ run.action = "Clear"
    /\ run.unlink = "ok"
    /\ \E p \in fs : made[p] = <<run.sess, "success">>

\* C5: no script run ends in an uncaught exception.
ErrorsAreCaught == ~run.uncaught

\* C6: Generate Speech with empty text shows the warning and makes no gTTS
\* call; a gTTS call is made only with the non-empty text of the text area.
EmptyTextNotSynthesised ==
    run.action = "Generate" =>
        /\ run.text = "" => (run.tts = <<>> /\ run.msg = "warning")
        /\ run.tts # <<>> => (run.text # "" /\ run.tts[1].text = run.text)

\* Generate Speech was pressed with empty text.
GenerateWithEmptyText ==
    /\ run.action = "Generate"
    /\ run.text = ""
    /\ run.msg = "warning"

\* C7: the language code of a gTTS call is the code the languages
\* dictionary gives for the selected label.
LanguageCodeIsWireCode ==
    (run.action = "Generate" /\ run.tts # <<>>) =>
        run.tts[1].lang = languages[selected_language[run.sess]]

\* C8: whisper_model, the cache and the count of whisper.load_model calls
\* change only in a Load/Reload Models run.
ModelChangesOnlyOnLoad ==
    [][(whisper_model' # whisper_model \/ model_cache' # model_cache
            \/ load_calls' # load_calls)
        => run'.action = "Load"]_vars

\* With a model loaded, the size selectbox was moved to another size and the
\* session still holds the model it had.
SelectorMovedModelKept ==
    /\ run.action = "SelectModelSize"
    /\ whisper_model["s1"] # NoModel
    /\ whisper_model["s1"][1] # whisper_model_size["s1"]

\* C9: a script run of one session leaves the transcription, audio_path and
\* whisper_model of every other session as they were and removes no file
\* another session's audio_path names; the shared cache is keyed by model
\* size alone.
SessionsIsolated ==
    [][/\ \A s \in Sessions :
            run'.sess # s =>
                /\ whisper_model'[s] = whisper_model[s]
                /\ transcription'[s] = transcription[s]
                /\ audio_path'[s] = audio_path[s]
                /\ (audio_path[s] # NoPath /\ audio_path[s] \in fs)
                      => audio_path[s] \in fs'
       /\ DOMAIN model_cache' = ModelSizes]_vars

\* Session s1 pressed Clear and removed its file while session s2 had a
\* model, a transcription and a temporary file of its own.
ClearBesideOtherSession ==
    /\ run.action = "Clear"
    /\ run.sess = "s1"
    /\ run.unlink = "ok"
    /\ whisper_model["s2"] # NoModel
    /\ transcription["s2"] # ""
    /\ audio_path["s2"] # NoPath

\* C10: a session's audio_path, when not None, names an existing temporary
\* file created by a successful Transcribe Audio run of that session; a
\* failed transcription does not leave it naming the file the run removed.
AudioPathNamesOwnFile ==
    /\ \A s \in Sessions :
          audio_path[s] # NoPath =>
              /\ audio_path[s] \in fs
              /\ made[audio_path[s]] = <<s, "success">>
    /\ (run.action = "Transcribe" /\ run.unlink = "ok") =>
          audio_path[run.sess] # run.path

\* A transcription failed and removed its file in a session whose
\* audio_path names the file of an earlier transcription.
FailedTranscribeAfterSuccess ==
    /\ run.action = "Transcribe"
    /\ run.msg = "error"
    /\ run.unlink = "ok"
    /\ audio_path[run.sess] # NoPath

=============================================================================
